---- MODULE Spec2Model ----
(***************************************************************************)
(* Model of the BitMEX connector of chocolate_road                         *)
(* (src/src/exchange/bitmex.rs, src/src/exchange/mod.rs).                   *)
(*                                                                         *)
(* One event-loop thread owns the websocket and runs the Handler callbacks *)
(* (on_open, on_message, on_close, on_timeout); every inbound frame is     *)
(* handed to a freshly spawned decode thread.  The Arc-shared objects      *)
(* (two RwLock<HashMap> tables and one Mutex<redis::Connection>) are kept   *)
(* in heaps indexed by a handle, so that "the same shared object" and "a   *)
(* copy" are different things in the model.                                *)
(*                                                                         *)
(* u64 values that exceed the checker's integer range are kept as two      *)
(* limbs in base 10^8: [hi, lo] stands for hi * 100000000 + lo.            *)
(* f32 values are kept as [m, e], standing for m * 2^e with m odd (or 0).  *)
(***************************************************************************)
EXTENDS Integers, Sequences, FiniteSets, TLC

\* ---------------------------------------------------------------- bounds
\* Connections opened in one run (the first one and the reconnects).
MaxConns == 2

\* Frames received in one run (one decode thread each).
MaxFrames == 2

\* Decode threads alive at the same time.
MaxInFlight == 2

\* Calls of get_asset_pair made with the same arguments.
MaxCalls == 2

\* ------------------------------------------------------ program constants
\* 100000000 * index(symbol)
BASE_PER_SYMBOL == 100000000

\* 8800000000 = 88 * 100000000, the fixed offset of XBTUSD
XBT_OFFSET_HI == 88

\* an f32 has a 24-bit significand: integers up to 2^24 convert exactly
F32_SIGNIFICAND == 16777216

\* ------------------------------------------------------------- f32 model
RECURSIVE BitLen(_)
BitLen(n) == IF n = 0 THEN 0 ELSE 1 + BitLen(n \div 2)

RECURSIVE Pow2(_)
Pow2(k) == IF k = 0 THEN 1 ELSE 2 * Pow2(k - 1)

\* canonical form of m * 2^e: m odd, or [0, 0]
RECURSIVE Canon(_, _)
Canon(m, e) ==
    IF m = 0 THEN [m |-> 0, e |-> 0]
    ELSE IF m % 2 = 0 THEN Canon(m \div 2, e + 1)
    ELSE [m |-> m, e |-> e]

\* p * 2^e rounded to the nearest f32 (24 significant bits, ties to even)
RoundF32(p, e) ==
    LET k    == IF p >= F32_SIGNIFICAND THEN BitLen(p) - 24 ELSE 0
        q    == p \div Pow2(k)
        rem  == p % Pow2(k)
        half == IF k = 0 THEN 0 ELSE Pow2(k - 1)
        up   == k > 0 /\ (rem > half \/ (rem = half /\ q % 2 = 1))
    IN  Canon(IF up THEN q + 1 ELSE q, e + k)

\* `n as f32` for a u64 n that fits the integer range
F32FromU64(n) == RoundF32(n, 0)

\* `(2^64 - k) as f32` for 0 < k < 2^39: the wrapped difference of a release
\* build rounds to 2^64
F32FromWrapped(k) == [m |-> 1, e |-> 64]

\* f32 * f32
F32Mul(a, b) == RoundF32(a.m * b.m, a.e + b.e)

\* the f32 literals and table values used below
F32_0_01 == [m |-> 5368709, e |-> -29]
F32_0_5 == [m |-> 1, e |-> -1]
F32_0_25 == [m |-> 1, e |-> -2]

\* --------------------------------------------------- exchange/mod.rs
None == "None"

\* enum Exchange and enum Asset
Exchanges == {"Poloniex", "GDAX", "BitMEX"}
Assets ==
    {"BTC", "ETH", "LTC", "USDT", "USDC", "USD", "JPY", "CNY", "KRW", "EUR", "GBP",
     "CAD", "AUD"}

market_first(exch) ==
    CASE exch = "Poloniex" -> TRUE
      [] exch = "GDAX" -> FALSE
      [] exch = "BitMEX" -> FALSE

asset_separator(exch) ==
    CASE exch = "Poloniex" -> "-"
      [] exch = "GDAX" -> "-"
      [] exch = "BitMEX" -> ""

normalize_asset(exch, asset) ==
    CASE exch = "Poloniex" ->
            (CASE asset = "BTC" -> "BTC"
               [] asset = "ETH" -> "ETH"
               [] asset = "LTC" -> "LTC"
               [] asset = "USDT" -> "USDT"
               [] OTHER -> None)
      [] exch = "GDAX" ->
            (CASE asset = "BTC" -> "BTC"
               [] asset = "ETH" -> "ETH"
               [] asset = "LTC" -> "LTC"
               [] asset = "USD" -> "USD"
               [] asset = "USDC" -> "USDC"
               [] OTHER -> None)
      [] exch = "BitMEX" ->
            (CASE asset = "BTC" -> "XBT"
               [] asset = "ETH" -> "ETH"
               [] asset = "LTC" -> "LTC"
               [] asset = "USD" -> "USD"
               [] OTHER -> None)

\* the result of a call that either returns a string or panics (`expect`)
Returned(s) == [panic |-> FALSE, val |-> s]
Panicked(s) == [panic |-> TRUE, val |-> s]

\* (mutant) market_first is ignored: always asset 0, separator, asset 1
get_asset_pair_asset_first(assets, exch) ==
    LET a0 == normalize_asset(exch, assets[1])
        a1 == normalize_asset(exch, assets[2])
    IN  IF a0 = None THEN Panicked("Asset 0 not found")
        ELSE IF a1 = None THEN Panicked("Asset 1 not found")
        ELSE Returned(a0 \o asset_separator(exch) \o a1)

\* assets is a pair <<assets[0], assets[1]>> of the source, 1-based here
get_asset_pair(assets, exch) ==
    LET a0 == normalize_asset(exch, assets[1])
        a1 == normalize_asset(exch, assets[2])
    IN  IF market_first(exch)
        THEN IF a1 = None THEN Panicked("Asset 1 not found")
             ELSE IF a0 = None THEN Panicked("Asset 0 not found")
             ELSE Returned(a1 \o asset_separator(exch) \o a0)
        ELSE IF a0 = None THEN Panicked("Asset 0 not found")
             ELSE IF a1 = None THEN Panicked("Asset 1 not found")
             ELSE Returned(a0 \o asset_separator(exch) \o a1)

\* ------------------------------------------------------------ inputs
\* WSExchange settings handed to run(): default_settings() and one override
DefaultSettings ==
    [host |-> "wss://www.bitmex.com/realtime",
     asset_pair |-> << <<"BTC", "USD">> >>,
     single_channels |-> << >>,
     dual_channels |-> <<"orderBookL2", "trade">>]

OverrideSettings ==
    [host |-> "wss://testnet.bitmex.com/realtime",
     asset_pair |-> << <<"BTC", "USD">>, <<"ETH", "USD">> >>,
     single_channels |-> <<"liquidation">>,
     dual_channels |-> <<"orderBookL2", "trade">>]

Settings == {DefaultSettings, OverrideSettings}

\* AssetInformation rows and the REST answers of the instrument endpoint
AssetInformation(s, t) == [symbol |-> s, tick_size |-> t]

ResponseA == <<AssetInformation("XBTUSD", F32_0_5), AssetInformation("ETHUSD", F32_0_5)>>
ResponseB == <<AssetInformation("ETHUSD", F32_0_25)>>
\* the endpoint answers with an empty JSON array
ResponseEmpty == << >>

Responses == {ResponseA, ResponseB, ResponseEmpty}

\* Option<u64> and Option<f32> of BitMEXData
NoId == [some |-> FALSE, hi |-> 0, lo |-> 0]
SomeId(h, l) == [some |-> TRUE, hi |-> h, lo |-> l]
NoSize == [some |-> FALSE, val |-> 0]
SomeSize(v) == [some |-> TRUE, val |-> v]

BitMEXData(sym, side, id, size) == [symbol |-> sym, side |-> side, id |-> id, size |-> size]

\* 100000000 * 1 - 42
uEth == BitMEXData("ETHUSD", "Buy", SomeId(0, 99999958), SomeSize(3))
uNoId == BitMEXData("ETHUSD", "Sell", NoId, NoSize)
\* 100000000 * 2 - 10
uLtc == BitMEXData("LTCUSD", "Sell", SomeId(1, 99999990), SomeSize(5))
\* 8800000000 - 123
uXbt == BitMEXData("XBTUSD", "Buy", SomeId(87, 99999877), NoSize)
\* 100000000 * 1 - 16777217
uBig == BitMEXData("ETHUSD", "Sell", SomeId(0, 83222783), SomeSize(1))
\* 8800000000 - 16777217, with a negative size
uXbtFar == BitMEXData("XBTUSD", "Sell", SomeId(87, 83222783), SomeSize(-2))
DataLists ==
    { <<uNoId>>, <<uNoId, uEth>>, <<uEth, uLtc>>, <<uNoId, uEth, uLtc>>,
      <<uXbt>>, <<uBig>>, <<uXbtFar>> }

\* a frame that serde_json parses as BitMEXMessage, and one that it does not
BitMEXMessage(t, a, d) == [ok |-> TRUE, table |-> t, action |-> a, data |-> d]
Malformed == [ok |-> FALSE, table |-> "", action |-> "", data |-> << >>]

SnapshotHeaders ==
    { <<"orderBookL2", "partial">>, <<"orderBookL2", "">>, <<"partial", "partial">> }

Frames ==
    {Malformed}
    \cup {BitMEXMessage("orderBookL2", "update", d) : d \in DataLists}
    \cup {BitMEXMessage(h[1], h[2], <<uXbt>>) : h \in SnapshotHeaders}

\* ------------------------------------------------------------- state
VARIABLES
    conn,             \* the live WSExchangeSender (the handler of the open socket)
    nconn,            \* connections opened so far
    pc,               \* where the event-loop thread is
    msg,              \* on_open: the BitMEXSubscription being built
    response,         \* on_open: the REST answer being iterated
    oi,               \* on_open: 1-based position in response
    asset_indexes,    \* heap of Arc<RwLock<HashMap<String, u64>>>
    asset_tick_size,  \* heap of Arc<RwLock<HashMap<String, f32>>>
    r,                \* heap of Arc<Mutex<redis::Connection>>
    tectonic,         \* archives that exist in the storage sink
    timeouts,         \* timeouts scheduled on the event loop
    tasks,            \* decode threads, one per received frame
    published,        \* what the pub/sub sink received
    sent,             \* what was sent on the websockets
    rest_log,         \* the REST requests made, by connection
    create_log,       \* the storage create calls made
    pair_call         \* a caller of get_asset_pair: its arguments and results

vars == <<conn, nconn, pc, msg, response, oi, asset_indexes, asset_tick_size, r,
          tectonic, timeouts, tasks, published, sent, rest_log, create_log, pair_call>>

EXPIRE == 1

EmptyMap == [s \in {} |-> 0]

\* (mutant) the table is replaced by the inserted entry instead of extended
InsertReplacing(map, k, v) == [x \in {k} |-> v]

Insert(map, k, v) == [x \in (DOMAIN map) \cup {k} |-> IF x = k THEN v ELSE map[x]]

\* WSExchangeSender as built by run() and by the reconnect handlers
WSExchangeSender(id, host, pairs, single, dual, ai, at, rh) ==
    [id |-> id, host |-> host, asset_pair |-> pairs,
     single_channels |-> single, dual_channels |-> dual,
     asset_indexes |-> ai, asset_tick_size |-> at, r |-> rh,
     state |-> "Connecting"]

NoSubscription == [op |-> "", args |-> << >>]

\* no call of get_asset_pair other than those of on_open
NoCall == [exch |-> "", assets |-> << >>, rets |-> << >>]

\* run(): fresh Arcs around empty tables and around the redis connection
Init ==
    /\ \E s \in Settings :
          conn = WSExchangeSender(1, s.host, s.asset_pair, s.single_channels,
                                  s.dual_channels, 1, 1, 1)
    /\ nconn = 1
    /\ pc = "idle"
    /\ msg = NoSubscription
    /\ response = << >>
    /\ oi = 0
    /\ asset_indexes = <<EmptyMap>>
    /\ asset_tick_size = <<EmptyMap>>
    /\ r = <<[holder |-> 0, poisoned |-> FALSE]>>
    /\ tectonic = {}
    /\ timeouts = {}
    /\ tasks = << >>
    /\ published = << >>
    /\ sent = << >>
    /\ rest_log = << >>
    /\ create_log = << >>
    /\ pair_call = NoCall

\* ------------------------------------------------------------ on_open
\* (mutant) the loops nested the other way round: pairs outside, keys inside
DualArgPairMajor(c, k) ==
    LET nd   == Len(c.dual_channels)
        key  == c.dual_channels[((k - 1) % nd) + 1]
        pair == get_asset_pair(c.asset_pair[((k - 1) \div nd) + 1], "BitMEX")
    IN  IF pair.panic THEN pair ELSE Returned(key \o ":" \o pair.val)

\* the args pushed by the two loops over single_channels and dual_channels
DualArg(c, k) ==
    LET np   == Len(c.asset_pair)
        key  == c.dual_channels[((k - 1) \div np) + 1]
        pair == get_asset_pair(c.asset_pair[((k - 1) % np) + 1], "BitMEX")
    IN  IF pair.panic THEN pair ELSE Returned(key \o ":" \o pair.val)

BitMEXSubscription(c) ==
    LET n == Len(c.dual_channels) * Len(c.asset_pair)
    IN  IF \E k \in 1..n : DualArg(c, k).panic
        THEN [panic |-> TRUE, val |-> NoSubscription]
        ELSE [panic |-> FALSE,
              val |-> [op |-> "subscribe",
                       args |-> c.single_channels \o [k \in 1..n |-> DualArg(c, k).val]]]

\* (mutant) the answer is fetched but the send comes before the inserts
OnOpenSendFirst ==
    /\ pc = "idle"
    /\ conn.state = "Connecting"
    /\ LET sub == BitMEXSubscription(conn)
       IN  IF sub.panic
           THEN /\ pc' = "panicked"
                /\ UNCHANGED <<msg, response, oi, rest_log>>
           ELSE /\ msg' = sub.val
                /\ rest_log' = Append(rest_log, conn.id)
                /\ \/ /\ pc' = "panicked"
                      /\ UNCHANGED <<response, oi>>
                   \/ \E resp \in Responses :
                         /\ response' = resp
                         /\ oi' = 1
                         /\ pc' = "open_send"
    /\ UNCHANGED <<pair_call, conn, nconn, asset_indexes, asset_tick_size, r, tectonic,
                   timeouts, tasks, published, sent, create_log>>

\* on_open up to the REST answer: build the subscription, fetch the instruments.
\* A panic of `expect` unwinds the event-loop thread out of ws::connect.
OnOpen ==
    /\ pc = "idle"
    /\ conn.state = "Connecting"
    /\ LET sub == BitMEXSubscription(conn)
       IN  IF sub.panic
           THEN /\ pc' = "panicked"
                /\ UNCHANGED <<msg, response, oi, rest_log>>
           ELSE /\ msg' = sub.val
                /\ rest_log' = Append(rest_log, conn.id)
                /\ \/ /\ pc' = "panicked"
                      /\ UNCHANGED <<response, oi>>
                   \/ \E resp \in Responses :
                         /\ response' = resp
                         /\ oi' = 1
                         /\ pc' = IF Len(resp) = 0 THEN "open_send" ELSE "open_index"
    /\ UNCHANGED <<pair_call, conn, nconn, asset_indexes, asset_tick_size, r, tectonic,
                   timeouts, tasks, published, sent, create_log>>

\* asset_indexes.write().unwrap().insert(symbol, index as u64)
OnOpenInsertIndex ==
    /\ pc = "open_index"
    /\ asset_indexes' = [asset_indexes EXCEPT ![conn.asset_indexes] =
                            Insert(@, response[oi].symbol, oi - 1)]
    /\ pc' = "open_tick"
    /\ UNCHANGED <<pair_call, conn, nconn, msg, response, oi, asset_tick_size, r, tectonic,
                   timeouts, tasks, published, sent, rest_log, create_log>>

ArchiveName(symbol) == "bitmex_" \o symbol

\* (mutant) the archive of every instrument is created when it does not exist
OnOpenInsertTickCreateAll ==
    /\ pc = "open_tick"
    /\ asset_tick_size' = [asset_tick_size EXCEPT ![conn.asset_tick_size] =
                              Insert(@, response[oi].symbol, response[oi].tick_size)]
    /\ LET symbol == response[oi].symbol
           name   == ArchiveName(symbol)
           more   == /\ oi' = oi + 1
                     /\ pc' = IF oi = Len(response) THEN "open_send" ELSE "open_index"
                     /\ UNCHANGED <<conn, msg, response>>
       IN  \/ /\ pc' = "idle"
              /\ conn' = [conn EXCEPT !.state = "OpenError"]
              /\ msg' = NoSubscription
              /\ response' = << >>
              /\ oi' = 0
              /\ UNCHANGED <<tectonic, create_log>>
           \/ /\ name \notin tectonic
              /\ create_log' = Append(create_log, [conn |-> conn.id, name |-> name])
              /\ \E created \in BOOLEAN :
                    tectonic' = IF created THEN tectonic \cup {name} ELSE tectonic
              /\ more
           \/ /\ name \in tectonic
              /\ UNCHANGED <<tectonic, create_log>>
              /\ more
    /\ UNCHANGED <<pair_call, nconn, asset_indexes, r, timeouts, tasks,
                   published, sent, rest_log>>

\* asset_tick_size.write().unwrap().insert(symbol, tick_size), then the
\* exists/create of the archive; an Err of exists leaves on_open through `?`
OnOpenInsertTick ==
    /\ pc = "open_tick"
    /\ asset_tick_size' = [asset_tick_size EXCEPT ![conn.asset_tick_size] =
                              Insert(@, response[oi].symbol, response[oi].tick_size)]
    /\ LET symbol == response[oi].symbol
           name   == ArchiveName(symbol)
           more   == /\ oi' = oi + 1
                     /\ pc' = IF oi = Len(response) THEN "open_send" ELSE "open_index"
                     /\ UNCHANGED <<conn, msg, response>>
       IN  \/ /\ pc' = "idle"
              /\ conn' = [conn EXCEPT !.state = "OpenError"]
              /\ msg' = NoSubscription
              /\ response' = << >>
              /\ oi' = 0
              /\ UNCHANGED <<tectonic, create_log>>
           \/ /\ name \notin tectonic
              /\ symbol = get_asset_pair(<<"BTC", "USD">>, "BitMEX").val
              /\ create_log' = Append(create_log, [conn |-> conn.id, name |-> name])
              /\ \E created \in BOOLEAN :
                    tectonic' = IF created THEN tectonic \cup {name} ELSE tectonic
              /\ more
           \/ /\ ~(name \notin tectonic
                   /\ symbol = get_asset_pair(<<"BTC", "USD">>, "BitMEX").val)
              /\ UNCHANGED <<tectonic, create_log>>
              /\ more
    /\ UNCHANGED <<pair_call, nconn, asset_indexes, r, timeouts, tasks,
                   published, sent, rest_log>>

\* self.out.send(serde_json::to_string(&msg).unwrap())
OnOpenSend ==
    /\ pc = "open_send"
    /\ pc' = "idle"
    /\ msg' = NoSubscription
    /\ response' = << >>
    /\ oi' = 0
    /\ \/ /\ sent' = Append(sent, [conn |-> conn.id, msg |-> msg])
          /\ conn' = [conn EXCEPT !.state = "SubscriptionSent"]
       \/ /\ conn' = [conn EXCEPT !.state = "OpenError"]
          /\ UNCHANGED sent
    /\ UNCHANGED <<pair_call, nconn, asset_indexes, asset_tick_size, r,
                   tectonic, timeouts, tasks, published, rest_log, create_log>>

\* --------------------------------------------------------- on_message
NoF32 == [m |-> 0, e |-> 0]

\* the closure moved into thread::spawn: the frame and the three Arc clones
DecodeTask(frame, c) ==
    [frame |-> frame, asset_indexes |-> c.asset_indexes,
     asset_tick_size |-> c.asset_tick_size, r |-> c.r,
     pc |-> "spawned", i |-> 0, deltas |-> << >>, idx |-> 0, acc |-> NoF32]

\* where a thread can have ended: the Err arm, the snapshot return, the end of
\* the closure after the publish, a panic
EndedPcs == {"parse_error", "skipped", "published", "panicked"}

InFlight == {t \in 1..Len(tasks) : tasks[t].pc \notin EndedPcs}

\* thread::spawn(move || ..) with the frame and the clones; returns Ok(())
OnMessage ==
    /\ pc = "idle"
    /\ conn.state \in {"SubscriptionSent", "Streaming"}
    /\ Len(tasks) < MaxFrames
    /\ Cardinality(InFlight) < MaxInFlight
    /\ \E frame \in Frames : tasks' = Append(tasks, DecodeTask(frame, conn))
    /\ conn' = [conn EXCEPT !.state = "Streaming"]
    /\ UNCHANGED <<pair_call, nconn, pc, msg, response, oi, asset_indexes, asset_tick_size, r,
                   tectonic, timeouts, published, sent, rest_log, create_log>>

\* ------------------------------------------------- the decode thread
Delta(symbol, price, size) == [symbol |-> symbol, price |-> price, size |-> size]

\* size.unwrap_or(0.0)
UnwrapOr0(size) == IF size.some THEN size.val ELSE 0

\* (mutant) the operands swapped: id - offHi * 100000000
SubU64Swapped(offHi, id) ==
    IF id.hi < offHi \/ (id.hi = offHi /\ id.lo = 0)
    THEN [under |-> id.hi # offHi, val |-> (offHi - id.hi) * BASE_PER_SYMBOL - id.lo]
    ELSE [under |-> FALSE, val |-> (id.hi - offHi) * BASE_PER_SYMBOL + id.lo]

\* offHi * 100000000 - id on u64: the difference, or by how much it is below 0
SubU64(offHi, id) ==
    IF id.hi < offHi \/ (id.hi = offHi /\ id.lo = 0)
    THEN [under |-> FALSE, val |-> (offHi - id.hi) * BASE_PER_SYMBOL - id.lo]
    ELSE [under |-> TRUE, val |-> (id.hi - offHi) * BASE_PER_SYMBOL + id.lo]

\* a thread that returned, or was unwound by a panic, keeps nothing: the frame
\* was moved into it and is dropped with it
Consumed == [ok |-> FALSE, table |-> "-", action |-> "-", data |-> << >>]

Ended(task, how) ==
    [task EXCEPT !.pc = how, !.i = 0, !.deltas = << >>, !.acc = NoF32, !.idx = 0,
                 !.frame = Consumed]

\* (mutant) the tick size of XBTUSD is taken from the table when it is there
XbtDeltaTableTick(update) ==
    LET sub  == SubU64(XBT_OFFSET_HI, update.id)
        f    == IF sub.under THEN F32FromWrapped(sub.val) ELSE F32FromU64(sub.val)
        tbl  == asset_tick_size[1]
        tick == IF "XBTUSD" \in DOMAIN tbl THEN tbl["XBTUSD"] ELSE F32_0_01
    IN  Delta("XBTUSD", F32Mul(f, tick), UnwrapOr0(update.size))

\* the XBTUSD branch: fixed offset 8800000000 and fixed tick 0.01
XbtDelta(update) ==
    LET sub == SubU64(XBT_OFFSET_HI, update.id)
        f   == IF sub.under THEN F32FromWrapped(sub.val) ELSE F32FromU64(sub.val)
    IN  Delta("XBTUSD", F32Mul(f, F32_0_01), UnwrapOr0(update.size))

\* `for update in message.data` from update task.i on, as far as it touches no
\* shared object: updates without id are skipped, XBTUSD updates are decoded
\* with constants.  The thread stops before the next read of asset_indexes
\* ("index"), before the lock of the redis mutex ("lock"), or panicked.  A
\* subtraction below zero panics with overflow checks and wraps without.
RECURSIVE Loop(_)
Loop(task) ==
    IF task.i > Len(task.frame.data)
    THEN {[task EXCEPT !.pc = "lock", !.i = 0]}
    ELSE LET update == task.frame.data[task.i]
         IN  IF ~update.id.some
             THEN Loop([task EXCEPT !.i = task.i + 1])
             ELSE IF update.symbol = "XBTUSD"
             THEN Loop([task EXCEPT !.deltas = Append(task.deltas, XbtDelta(update)),
                                    !.i = task.i + 1])
                  \cup (IF SubU64(XBT_OFFSET_HI, update.id).under
                        THEN {Ended(task, "panicked")} ELSE {})
             ELSE {[task EXCEPT !.pc = "index"]}

\* (mutant) from_slice(..).unwrap(): a frame that does not parse panics
TaskParseUnwrap(t) ==
    /\ tasks[t].pc = "spawned"
    /\ LET task == tasks[t]
           message == task.frame
       IN  IF ~message.ok
           THEN tasks' = [tasks EXCEPT ![t] = Ended(task, "panicked")]
           ELSE IF message.table = "" \/ message.table = "partial"
           THEN tasks' = [tasks EXCEPT ![t] = Ended(task, "skipped")]
           ELSE \E next \in Loop([task EXCEPT !.i = 1]) :
                   tasks' = [tasks EXCEPT ![t] = next]
    /\ UNCHANGED <<pair_call, conn, nconn, pc, msg, response, oi, asset_indexes, asset_tick_size,
                   r, tectonic, timeouts, published, sent, rest_log, create_log>>

\* serde_json::from_slice, the snapshot test, and the loop up to its first
\* shared access
TaskParse(t) ==
    /\ tasks[t].pc = "spawned"
    /\ LET task == tasks[t]
           message == task.frame
       IN  IF ~message.ok
           THEN tasks' = [tasks EXCEPT ![t] = Ended(task, "parse_error")]
           ELSE IF message.table = "" \/ message.table = "partial"
           THEN tasks' = [tasks EXCEPT ![t] = Ended(task, "skipped")]
           ELSE \E next \in Loop([task EXCEPT !.i = 1]) :
                   tasks' = [tasks EXCEPT ![t] = next]
    /\ UNCHANGED <<pair_call, conn, nconn, pc, msg, response, oi, asset_indexes, asset_tick_size,
                   r, tectonic, timeouts, published, sent, rest_log, create_log>>

\* asset_index_ref.read().unwrap()[&update.symbol], the u64 subtraction and
\* the cast to f32; indexing a HashMap with a missing key panics
TaskIndex(t) ==
    /\ tasks[t].pc = "index"
    /\ LET task   == tasks[t]
           update == task.frame.data[task.i]
           table  == asset_indexes[task.asset_indexes]
       IN  IF update.symbol \notin DOMAIN table
           THEN tasks' = [tasks EXCEPT ![t] = Ended(task, "panicked")]
           ELSE LET sub == SubU64(table[update.symbol], update.id)
                    f   == IF sub.under THEN F32FromWrapped(sub.val)
                           ELSE F32FromU64(sub.val)
                IN  \/ tasks' = [tasks EXCEPT ![t] =
                                    [task EXCEPT !.pc = "tick", !.acc = f,
                                                 !.idx = table[update.symbol]]]
                    \/ /\ sub.under
                       /\ tasks' = [tasks EXCEPT ![t] = Ended(task, "panicked")]
    /\ UNCHANGED <<pair_call, conn, nconn, pc, msg, response, oi, asset_indexes, asset_tick_size,
                   r, tectonic, timeouts, published, sent, rest_log, create_log>>

\* asset_tick_ref.read().unwrap()[&update.symbol], the f32 product and
\* deltas.push(delta); then the loop up to its next shared access
TaskTick(t) ==
    /\ tasks[t].pc = "tick"
    /\ LET task   == tasks[t]
           update == task.frame.data[task.i]
           table  == asset_tick_size[task.asset_tick_size]
       IN  IF update.symbol \notin DOMAIN table
           THEN tasks' = [tasks EXCEPT ![t] = Ended(task, "panicked")]
           ELSE LET d == Delta(update.symbol, F32Mul(task.acc, table[update.symbol]),
                               UnwrapOr0(update.size))
                IN  \E next \in Loop([task EXCEPT !.deltas = Append(task.deltas, d),
                                                  !.acc = NoF32, !.idx = 0,
                                                  !.i = task.i + 1]) :
                       tasks' = [tasks EXCEPT ![t] = next]
    /\ UNCHANGED <<pair_call, conn, nconn, pc, msg, response, oi, asset_indexes, asset_tick_size,
                   r, tectonic, timeouts, published, sent, rest_log, create_log>>

\* (mutant) the mutex is handed out in the order in which the frames arrived
TaskLockInOrder(t) ==
    /\ tasks[t].pc = "lock"
    /\ \A u \in 1..(t - 1) : tasks[u].pc \in EndedPcs
    /\ LET task == tasks[t]
           h    == task.r
       IN  /\ r[h].holder = 0
           /\ IF r[h].poisoned
              THEN /\ tasks' = [tasks EXCEPT ![t] = Ended(task, "panicked")]
                   /\ UNCHANGED r
              ELSE /\ tasks' = [tasks EXCEPT ![t].pc = "publish"]
                   /\ r' = [r EXCEPT ![h].holder = t]
    /\ UNCHANGED <<pair_call, conn, nconn, pc, msg, response, oi, asset_indexes, asset_tick_size,
                   tectonic, timeouts, published, sent, rest_log, create_log>>

\* (mutant) the connection is used without waiting for the mutex
TaskLockNoWait(t) ==
    /\ tasks[t].pc = "lock"
    /\ LET task == tasks[t]
           h    == task.r
       IN  IF r[h].poisoned
           THEN /\ tasks' = [tasks EXCEPT ![t] = Ended(task, "panicked")]
                /\ UNCHANGED r
           ELSE /\ tasks' = [tasks EXCEPT ![t].pc = "publish"]
                /\ r' = [r EXCEPT ![h].holder = t]
    /\ UNCHANGED <<pair_call, conn, nconn, pc, msg, response, oi, asset_indexes, asset_tick_size,
                   tectonic, timeouts, published, sent, rest_log, create_log>>

\* redis_ref.lock().unwrap(): waits for the mutex, panics when it is poisoned
TaskLock(t) ==
    /\ tasks[t].pc = "lock"
    /\ LET task == tasks[t]
           h    == task.r
       IN  /\ r[h].holder = 0
           /\ IF r[h].poisoned
              THEN /\ tasks' = [tasks EXCEPT ![t] = Ended(task, "panicked")]
                   /\ UNCHANGED r
              ELSE /\ tasks' = [tasks EXCEPT ![t].pc = "publish"]
                   /\ r' = [r EXCEPT ![h].holder = t]
    /\ UNCHANGED <<pair_call, conn, nconn, pc, msg, response, oi, asset_indexes, asset_tick_size,
                   tectonic, timeouts, published, sent, rest_log, create_log>>

\* .publish("bitmex", to_string(&deltas)).expect(..): the guard is dropped at
\* the end of the statement, or by the unwinding, which poisons the mutex
TaskPublish(t) ==
    /\ tasks[t].pc = "publish"
    /\ LET task == tasks[t]
           h    == task.r
       IN  \/ /\ published' = Append(published,
                                 [task |-> t, topic |-> "bitmex", payload |-> task.deltas])
              /\ r' = [r EXCEPT ![h].holder = 0]
              /\ tasks' = [tasks EXCEPT ![t] = Ended(task, "published")]
           \/ /\ r' = [r EXCEPT ![h] = [holder |-> 0, poisoned |-> TRUE]]
              /\ tasks' = [tasks EXCEPT ![t] = Ended(task, "panicked")]
              /\ UNCHANGED published
    /\ UNCHANGED <<pair_call, conn, nconn, pc, msg, response, oi, asset_indexes, asset_tick_size,
                   tectonic, timeouts, sent, rest_log, create_log>>

\* ------------------------------------------------ on_close, on_timeout
\* (mutant) the tables are cloned into fresh Arcs, as run() builds them
OnCloseFreshArcs ==
    /\ pc = "idle"
    /\ nconn < MaxConns
    /\ asset_indexes' = Append(asset_indexes, asset_indexes[conn.asset_indexes])
    /\ asset_tick_size' = Append(asset_tick_size, asset_tick_size[conn.asset_tick_size])
    /\ conn' = WSExchangeSender(nconn + 1, conn.host, conn.asset_pair,
                                conn.single_channels, conn.dual_channels,
                                Len(asset_indexes) + 1, Len(asset_tick_size) + 1, conn.r)
    /\ nconn' = nconn + 1
    /\ UNCHANGED <<pair_call, pc, msg, response, oi, r, tectonic,
                   timeouts, tasks, published, sent, rest_log, create_log>>

\* ws::connect(self.host.clone(), |out| WSExchangeSender { .. }): the clone of
\* an Arc is the same handle
OnClose ==
    /\ pc = "idle"
    /\ nconn < MaxConns
    /\ conn' = WSExchangeSender(nconn + 1, conn.host, conn.asset_pair,
                                conn.single_channels, conn.dual_channels,
                                conn.asset_indexes, conn.asset_tick_size, conn.r)
    /\ nconn' = nconn + 1
    /\ UNCHANGED <<pair_call, pc, msg, response, oi, asset_indexes, asset_tick_size, r, tectonic,
                   timeouts, tasks, published, sent, rest_log, create_log>>

\* called by the event loop when a timeout scheduled with out.timeout expires
OnTimeout ==
    /\ pc = "idle"
    /\ EXPIRE \in timeouts
    /\ nconn < MaxConns
    /\ conn' = WSExchangeSender(nconn + 1, conn.host, conn.asset_pair,
                                conn.single_channels, conn.dual_channels,
                                conn.asset_indexes, conn.asset_tick_size, conn.r)
    /\ nconn' = nconn + 1
    /\ timeouts' = timeouts \ {EXPIRE}
    /\ UNCHANGED <<pair_call, pc, msg, response, oi, asset_indexes, asset_tick_size, r, tectonic,
                   tasks, published, sent, rest_log, create_log>>

Next ==
    \/ OnOpen
    \/ OnOpenInsertIndex
    \/ OnOpenInsertTick
    \/ OnOpenSend
    \/ OnMessage
    \/ OnClose
    \/ \E t \in 1..Len(tasks) : TaskParse(t)
    \/ \E t \in 1..Len(tasks) : TaskIndex(t)
    \/ \E t \in 1..Len(tasks) : TaskTick(t)
    \/ \E t \in 1..Len(tasks) : TaskLock(t)
    \/ \E t \in 1..Len(tasks) : TaskPublish(t)

Spec == Init /\ [][Next]_vars

\* ------------------------------------- get_asset_pair called on its own
\* a caller holding any exchange and any two assets; nothing else runs
InitPairs ==
    /\ conn = WSExchangeSender(1, DefaultSettings.host, DefaultSettings.asset_pair,
                               DefaultSettings.single_channels,
                               DefaultSettings.dual_channels, 1, 1, 1)
    /\ nconn = 1
    /\ pc = "idle"
    /\ msg = NoSubscription
    /\ response = << >>
    /\ oi = 0
    /\ asset_indexes = <<EmptyMap>>
    /\ asset_tick_size = <<EmptyMap>>
    /\ r = <<[holder |-> 0, poisoned |-> FALSE]>>
    /\ tectonic = {}
    /\ timeouts = {}
    /\ tasks = << >>
    /\ published = << >>
    /\ sent = << >>
    /\ rest_log = << >>
    /\ create_log = << >>
    /\ \E e \in Exchanges, a, b \in Assets :
          pair_call = [exch |-> e, assets |-> <<a, b>>, rets |-> << >>]

\* one call get_asset_pair(&assets, exch); a panic unwinds the caller, which
\* calls no more
GetAssetPair ==
    /\ Len(pair_call.rets) < MaxCalls
    /\ \A k \in 1..Len(pair_call.rets) : ~pair_call.rets[k].panic
    /\ pair_call' = [pair_call EXCEPT !.rets =
                        Append(@, get_asset_pair(pair_call.assets, pair_call.exch))]
    /\ UNCHANGED <<conn, nconn, pc, msg, response, oi, asset_indexes, asset_tick_size,
                   r, tectonic, timeouts, tasks, published, sent, rest_log, create_log>>

NextPairs == GetAssetPair

SpecPairs == InitPairs /\ [][NextPairs]_vars

TypeOK ==
    /\ nconn \in 1..MaxConns
    /\ pc \in {"idle", "open_index", "open_tick", "open_send", "panicked"}
    /\ Len(tasks) <= MaxFrames

\* ------------------------------------------------------------ claims
\* what the claims speak about
Ends(t) == tasks[t].pc \notin EndedPcs /\ tasks'[t].pc \in EndedPcs

\* a parsed frame whose action tag marks a snapshot / a delta
SnapshotAction(frame) == frame.ok /\ frame.action \in {"", "partial"}
DeltaAction(frame) == frame.ok /\ frame.action \notin {"", "partial"}

\* the symbol can be decoded by the thread: the reference symbol, or a symbol
\* held by both tables the thread reads
Decodable(task, symbol) ==
    \/ symbol = "XBTUSD"
    \/ /\ symbol \in DOMAIN asset_indexes[task.asset_indexes]
       /\ symbol \in DOMAIN asset_tick_size[task.asset_tick_size]

\* raw_id <= offset(symbol) for a decodable symbol
InRange(task, update) ==
    LET offHi == IF update.symbol = "XBTUSD" THEN XBT_OFFSET_HI
                 ELSE asset_indexes[task.asset_indexes][update.symbol]
    IN  update.id.hi < offHi \/ (update.id.hi = offHi /\ update.id.lo = 0)

\* the updates of the frame that have an id and a decodable symbol
Kept(task) ==
    {i \in 1..Len(task.frame.data) :
        task.frame.data[i].id.some /\ Decodable(task, task.frame.data[i].symbol)}

\* C1: a delta frame of two updates with an id, one for a registered symbol
\* (raw id within its offset) and one for an unregistered symbol, ends with one
\* publish of exactly one Delta; the decode thread does not crash.
C1_UnknownSymbolIsolated ==
    [][\A t \in 1..Len(tasks) :
          LET task == tasks[t]
              data == task.frame.data
          IN  ( /\ Ends(t)
                /\ DeltaAction(task.frame)
                /\ Len(data) = 2
                /\ \A i \in 1..2 : data[i].id.some
                /\ Cardinality(Kept(task)) = 1
                /\ \A i \in Kept(task) : InRange(task, data[i]) )
              => /\ tasks'[t].pc = "published"
                 /\ Len(published') = Len(published) + 1
                 /\ Len(published'[Len(published')].payload) = 1]_vars

\* C2: a frame whose action is "" or "partial" never yields a Delta and never
\* reaches the pub/sub sink, whatever its table name.
C2_SnapshotSuppressed ==
    [][\A t \in 1..Len(tasks) :
          SnapshotAction(tasks[t].frame)
          => /\ tasks'[t].deltas = << >>
             /\ tasks'[t].pc # "published"
             /\ (tasks'[t] # tasks[t] => published' = published)]_vars

\* C4: a failed REST fetch in on_open does not terminate the event-loop thread
\* (the handler goes on to a new connection attempt).
C4_FetchFailureNotFatal ==
    ~(pc = "panicked" /\ rest_log # << >> /\ rest_log[Len(rest_log)] = conn.id)

\* C9: while the handler is Streaming an inactivity timeout is scheduled, so
\* that a silent socket raises the timeout event.
C9_InactivityTimeout == conn.state = "Streaming" => EXPIRE \in timeouts

C5_MalformedDiscarded ==
    [][ /\ \A t \in 1..Len(tasks) :
              (tasks[t].frame = Malformed /\ tasks'[t] # tasks[t])
              => /\ tasks'[t].pc = "parse_error"
                 /\ UNCHANGED <<published, asset_indexes, asset_tick_size, r, conn,
                                nconn, pc, sent, tectonic>>
        /\ (Len(tasks') > Len(tasks) /\ tasks'[Len(tasks')].frame = Malformed)
           => /\ conn'.state = "Streaming"
              /\ pc' = "idle"
              /\ UNCHANGED <<published, asset_indexes, asset_tick_size, r, nconn>> ]_vars

\* a frame that did not parse was discarded and a later frame was published
C5_Witness ==
    \E t1, t2 \in 1..Len(tasks) :
        /\ t1 < t2
        /\ tasks[t1].pc = "parse_error"
        /\ tasks[t2].pc = "published"
        /\ \E k \in 1..Len(published) :
              published[k].task = t2 /\ published[k].payload # << >>

\* the kept updates of a frame, in frame order
KeptSeq(task) ==
    SelectSeq(task.frame.data, LAMBDA u : u.id.some /\ Decodable(task, u.symbol))

\* the decode of a frame is not cut short by the sink: the mutex is sound and
\* every decodable raw id is within its offset
SoundRun(task) ==
    /\ ~r[task.r].poisoned
    /\ \A i \in Kept(task) : InRange(task, task.frame.data[i])

\* C6: in a delta frame with an update without id, the thread reaches the
\* publish with exactly one Delta for every sibling that has an id and a
\* decodable symbol, in frame order, and none for the update without id.
C6_NoIdDroppedSiblingsKept ==
    [][\A t \in 1..Len(tasks) :
          LET task == tasks[t]
              data == task.frame.data
              kept == KeptSeq(task)
          IN  ( /\ Ends(t)
                /\ DeltaAction(task.frame)
                /\ \E i \in 1..Len(data) : ~data[i].id.some
                /\ SoundRun(task) )
              => /\ task.pc = "publish"
                 /\ Len(task.deltas) = Len(kept)
                 /\ \A k \in 1..Len(kept) :
                       /\ task.deltas[k].symbol = kept[k].symbol
                       /\ task.deltas[k].size = UnwrapOr0(kept[k].size)]_vars

\* C7: every frame that parses and is not a snapshot reaches the publish, and
\* its publish is one message on topic "bitmex" whose payload is the list of
\* the Deltas decoded from that frame alone.
C7_OnePublishPerFrame ==
    [][\A t \in 1..Len(tasks) :
          LET task == tasks[t]
          IN  (Ends(t) /\ DeltaAction(task.frame) /\ SoundRun(task))
              => /\ task.pc = "publish"
                 /\ tasks'[t].pc = "published"
                    => published' = Append(published,
                          [task |-> t, topic |-> "bitmex", payload |-> task.deltas])]_vars

\* C8: every close opens connection nconn + 1 with the host, the metadata and
\* the channel lists of the closed one and with the same three handles (no
\* shared object is copied or changed), and a close is handled whatever the
\* state of the connection.
C8_ReconnectSameConfig ==
    /\ [][nconn' # nconn
          => /\ nconn' = nconn + 1
             /\ conn'.id = nconn'
             /\ conn'.state = "Connecting"
             /\ conn'.host = conn.host
             /\ conn'.asset_pair = conn.asset_pair
             /\ conn'.single_channels = conn.single_channels
             /\ conn'.dual_channels = conn.dual_channels
             /\ conn'.asset_indexes = conn.asset_indexes
             /\ conn'.asset_tick_size = conn.asset_tick_size
             /\ conn'.r = conn.r
             /\ UNCHANGED <<asset_indexes, asset_tick_size, r>>]_vars
    /\ []((pc = "idle" /\ nconn < MaxConns) => ENABLED OnClose)

\* a connection that was streaming was closed and replaced, tables populated
C8_Witness ==
    /\ nconn = 2
    /\ conn.state = "Connecting"
    /\ Len(tasks) > 0
    /\ asset_indexes[conn.asset_indexes] # EmptyMap
    /\ conn.host = OverrideSettings.host

\* 100000000 * index - raw_id for the update the thread is decoding
RawDiff(task) ==
    LET id == task.frame.data[task.i].id
    IN  BASE_PER_SYMBOL * task.idx - (id.hi * BASE_PER_SYMBOL + id.lo)

\* the Delta pushed by a step of thread t that reads the tick size
TickStep(t) == tasks[t].pc = "tick" /\ tasks'[t].pc # "panicked" /\ tasks'[t] # tasks[t]
Pushed(t) == tasks'[t].deltas[Len(tasks[t].deltas) + 1]
TickRead(t) ==
    asset_tick_size[tasks[t].asset_tick_size][tasks[t].frame.data[tasks[t].i].symbol]

\* C10 as stated: the price is the exact product (offset - raw_id) * tick.
C10_ExactPrice ==
    [][\A t \in 1..Len(tasks) :
          (TickStep(t) /\ RawDiff(tasks[t]) >= 0)
          => Pushed(t).price = Canon(RawDiff(tasks[t]) * TickRead(t).m, TickRead(t).e)]_vars

\* C10 amended: the price is the f32 product of the difference converted to
\* f32 and the tick size; it is the exact product when the difference is at
\* most 2^24 and the tick size is a power of two.
C10_F32Price ==
    [][\A t \in 1..Len(tasks) :
          (TickStep(t) /\ RawDiff(tasks[t]) >= 0)
          => LET d == RoundF32(RawDiff(tasks[t]), 0)
             IN  /\ Pushed(t).symbol = tasks[t].frame.data[tasks[t].i].symbol
                 /\ Pushed(t).price = RoundF32(d.m * TickRead(t).m, d.e + TickRead(t).e)
                 /\ (RawDiff(tasks[t]) <= F32_SIGNIFICAND /\ TickRead(t).m = 1)
                    => Pushed(t).price = Canon(RawDiff(tasks[t]), TickRead(t).e)]_vars

\* index 1, tick 0.5, raw id 100000000 - 42: the published price is 21
C10_Witness ==
    \E k \in 1..Len(published) : \E j \in 1..Len(published[k].payload) :
        published[k].payload[j] = Delta("ETHUSD", [m |-> 21, e |-> 0], 3)

\* ---- exact products beyond the integer range, in limbs of 12 bits
Limb == Pow2(12)

\* a * b for a < 2^31 and b < 2^24, least significant limb first
MulLimbs(a, b) ==
    LET a0 == a % Limb
        a1 == (a \div Limb) % Limb
        a2 == a \div (Limb * Limb)
        b0 == b % Limb
        b1 == b \div Limb
        c0 == a0 * b0
        c1 == a0 * b1 + a1 * b0 + (c0 \div Limb)
        c2 == a1 * b1 + a2 * b0 + (c1 \div Limb)
        c3 == a2 * b1 + (c2 \div Limb)
    IN  <<c0 % Limb, c1 % Limb, c2 % Limb, c3 % Limb, c3 \div Limb>>

Bit(ls, j) == (ls[(j \div 12) + 1] \div Pow2(j % 12)) % 2

RECURSIVE TopBit(_, _)
TopBit(ls, j) == IF j < 0 THEN -1 ELSE IF Bit(ls, j) = 1 THEN j ELSE TopBit(ls, j - 1)

RECURSIVE BitsVal(_, _, _)
BitsVal(ls, lo, hi) == IF hi < lo THEN 0 ELSE Bit(ls, lo) + 2 * BitsVal(ls, lo + 1, hi)

\* the f32 nearest to a * b * 2^e (one rounding of the exact product)
NearestF32OfProduct(a, b, e) ==
    LET ls == MulLimbs(a, b)
        n  == TopBit(ls, 59) + 1
        k  == IF n > 24 THEN n - 24 ELSE 0
        q  == BitsVal(ls, k, n - 1)
        up == /\ k > 0
              /\ Bit(ls, k - 1) = 1
              /\ (q % 2 = 1 \/ \E j \in 0..(k - 2) : Bit(ls, j) = 1)
    IN  Canon(IF up THEN q + 1 ELSE q, e + k)

\* the updates of a frame that have an id: the thread pushes one Delta for each
\* of them, in order, or is unwound
WithId(frame) == SelectSeq(frame.data, LAMBDA u : u.id.some)

\* 8800000000 - raw_id, for a raw id within the offset
XbtDiff(id) == (XBT_OFFSET_HI - id.hi) * BASE_PER_SYMBOL - id.lo
XbtInRange(id) == id.hi < XBT_OFFSET_HI \/ (id.hi = XBT_OFFSET_HI /\ id.lo = 0)

\* the Deltas a thread holds for XBTUSD updates with a raw id within the offset
XbtDecoded(P(_, _)) ==
    \A t \in 1..Len(tasks) : \A k \in 1..Len(tasks[t].deltas) :
        LET u == WithId(tasks[t].frame)[k]
        IN  (u.symbol = "XBTUSD" /\ XbtInRange(u.id)) => P(u, tasks[t].deltas[k])

\* C11 as stated: the price of an XBTUSD Delta is (8800000000 - raw_id) * 0.01,
\* the product of the exact difference and the f32 constant, rounded once to
\* the f32 of the price field.
C11_XbtExactPrice ==
    XbtDecoded(LAMBDA u, d :
        d.price = NearestF32OfProduct(XbtDiff(u.id), F32_0_01.m, F32_0_01.e))

\* C11 amended: whatever the tables hold, the price of an XBTUSD Delta is the
\* f32 product of the difference converted to f32 and of the f32 0.01; it is
\* the once-rounded product when the difference is at most 2^24.
C11_XbtF32Price ==
    XbtDecoded(LAMBDA u, d :
        LET f == RoundF32(XbtDiff(u.id), 0)
        IN  /\ d.symbol = "XBTUSD"
            /\ d.price = RoundF32(f.m * F32_0_01.m, f.e + F32_0_01.e)
            /\ XbtDiff(u.id) <= F32_SIGNIFICAND
               => d.price = NearestF32OfProduct(XbtDiff(u.id), F32_0_01.m, F32_0_01.e))

\* raw id 8800000000 - 123 was decoded to 123 * 0.01 by a thread whose tables
\* are empty
C11_Witness ==
    \E t \in 1..Len(tasks) :
        /\ tasks[t].pc = "lock"
        /\ tasks[t].frame.data = <<uXbt>>
        /\ tasks[t].deltas = <<Delta("XBTUSD", [m |-> 2579497, e |-> -21], 0)>>
        /\ asset_indexes[tasks[t].asset_indexes] = EmptyMap
        /\ asset_tick_size[tasks[t].asset_tick_size] = EmptyMap

\* the exchange has an entry for the asset
Supported(exch, asset) == normalize_asset(exch, asset) # None

\* C12: a call of get_asset_pair with an asset that the exchange does not map
\* returns to its caller (with an error value): it does not panic.
C12_UnsupportedAssetIsError ==
    \A k \in 1..Len(pair_call.rets) :
        (\E i \in 1..2 : ~Supported(pair_call.exch, pair_call.assets[i]))
        => ~pair_call.rets[k].panic

C14_SubscriptionArgs ==
    \A i \in 1..Len(sent) :
        LET m  == sent[i].msg
            ns == Len(conn.single_channels)
            nd == Len(conn.dual_channels)
            np == Len(conn.asset_pair)
        IN  /\ m.op = "subscribe"
            /\ Len(m.args) = ns + nd * np
            /\ \A j \in 1..ns : m.args[j] = conn.single_channels[j]
            /\ \A d \in 1..nd : \A q \in 1..np :
                  m.args[ns + (d - 1) * np + q] =
                     conn.dual_channels[d] \o ":"
                        \o get_asset_pair(conn.asset_pair[q], "BitMEX").val
            /\ conn.host = DefaultSettings.host
               => m.args = <<"orderBookL2:XBTUSD", "trade:XBTUSD">>
            /\ conn.host = OverrideSettings.host
               => m.args = <<"liquidation", "orderBookL2:XBTUSD", "orderBookL2:ETHUSD",
                             "trade:XBTUSD", "trade:ETHUSD">>

\* one single channel, two dual channels and two pairs: five args were sent
C14_Witness ==
    /\ Len(sent) > 0
    /\ Len(sent[1].msg.args) = 5
    /\ conn.state = "SubscriptionSent"

\* C15: every Delta that reaches the pub/sub sink has size >= 0.
C15_SizeNonNegative ==
    \A k \in 1..Len(published) : \A j \in 1..Len(published[k].payload) :
        published[k].payload[j].size >= 0

\* C16: a failed publish is a failure of its own thread only: it leaves the
\* connection as it is, and no thread that comes to the pub/sub connection
\* afterwards is stopped there (it goes on to publish).
C16_SinkFailureIsolated ==
    [][\A t \in 1..Len(tasks) :
          /\ (tasks[t].pc = "publish" /\ tasks'[t].pc = "panicked")
             => UNCHANGED <<conn, nconn, pc>>
          /\ (tasks[t].pc = "lock" /\ tasks'[t] # tasks[t])
             => tasks'[t].pc = "publish"]_vars

\* C17: whenever a thread reads the tick size of a symbol, the entry is there,
\* and the index it read before and the tick size it reads now are those of
\* one and the same answer of the instrument endpoint.
C17_NoPartialRead ==
    [][\A t \in 1..Len(tasks) :
          (tasks[t].pc = "tick" /\ tasks'[t] # tasks[t])
          => LET sym == tasks[t].frame.data[tasks[t].i].symbol
                 tbl == asset_tick_size[tasks[t].asset_tick_size]
             IN  /\ sym \in DOMAIN tbl
                 /\ \E resp \in Responses : \E i \in 1..Len(resp) :
                       /\ resp[i].symbol = sym
                       /\ tasks[t].idx = i - 1
                       /\ tbl[sym] = resp[i].tick_size]_vars

\* C18: when a subscription request is transmitted, on_open has gone through
\* the whole answer of its own fetch and both tables hold every instrument of
\* it, with its position as index and with its tick size; and no connection
\* transmits a second subscription request.
C18_SubscribeAfterWrites ==
    [][Len(sent') > Len(sent)
       => /\ sent' = Append(sent, [conn |-> conn.id, msg |-> msg])
          /\ rest_log[Len(rest_log)] = conn.id
          /\ oi = Len(response) + 1
          /\ \A i \in 1..Len(response) :
                /\ response[i].symbol \in DOMAIN asset_indexes[conn.asset_indexes]
                /\ asset_indexes[conn.asset_indexes][response[i].symbol] = i - 1
                /\ response[i].symbol \in DOMAIN asset_tick_size[conn.asset_tick_size]
                /\ asset_tick_size[conn.asset_tick_size][response[i].symbol]
                      = response[i].tick_size
          /\ \A k \in 1..Len(sent) : sent[k].conn # conn.id]_vars

\* both connections have sent their subscription, each after its own inserts
C18_Witness ==
    /\ Len(sent) = 2
    /\ sent[1].conn = 1
    /\ sent[2].conn = 2
    /\ rest_log = <<1, 2>>
    /\ asset_indexes[conn.asset_indexes] = [s \in {"XBTUSD", "ETHUSD"} |-> IF s = "XBTUSD" THEN 0 ELSE 1]
    /\ "ETHUSD" \in DOMAIN asset_tick_size[conn.asset_tick_size]
    /\ asset_tick_size[conn.asset_tick_size]["ETHUSD"] = F32_0_5

\* the threads that are using the pub/sub connection behind handle h
Publishing(h) == {t \in 1..Len(tasks) : tasks[t].pc = "publish" /\ tasks[t].r = h}

\* C19: every thread, of whatever connection, uses the one pub/sub connection
\* of the live handler, and at most one thread at a time is using it: the
\* holder of its mutex.
C19_MutualExclusion ==
    /\ \A t \in 1..Len(tasks) : tasks[t].r = conn.r
    /\ \A h \in 1..Len(r) :
          /\ Cardinality(Publishing(h)) <= 1
          /\ Publishing(h) = IF r[h].holder = 0 THEN {} ELSE {r[h].holder}

\* after a reconnect two threads are in flight: one holds the mutex and is
\* publishing, the other waits at the lock
C19_Witness ==
    /\ nconn = 2
    /\ conn.state = "Streaming"
    /\ Len(tasks) = 2
    /\ tasks[1].pc = "publish"
    /\ tasks[2].pc = "lock"
    /\ r[conn.r].holder = 1

\* C20: nothing ties the mutex to the order of receipt: whenever the thread of
\* a later frame waits at the lock and the mutex is free, it can take it, also
\* while the thread of an earlier frame has not taken it yet; its Deltas are
\* then published first.
C20_PublishOrderFree ==
    \A t1, t2 \in 1..Len(tasks) :
        ( /\ t1 < t2
          /\ tasks[t1].pc \notin EndedPcs \cup {"publish"}
          /\ tasks[t2].pc = "lock"
          /\ r[tasks[t2].r].holder = 0 )
        => ENABLED TaskLock(t2)

\* the Deltas of the second frame were published before those of the first
C20_Witness ==
    /\ Len(published) = 2
    /\ published[1].task = 2
    /\ published[2].task = 1
    /\ published[1].payload # << >>
    /\ published[2].payload # << >>

\* C21: the storage sink's create is called only by on_open, only with the
\* name "bitmex_XBTUSD", for the instrument XBTUSD of the answer, and only when
\* that archive does not exist; only a create changes the archives, and only
\* by adding that one; and whether the create succeeds or fails, on_open goes
\* on to the next instrument or to the send, where the send is enabled.
C21_CreateOnlyReferenceArchive ==
    /\ [][ /\ create_log' # create_log
              => /\ create_log' = Append(create_log,
                                         [conn |-> conn.id, name |-> "bitmex_XBTUSD"])
                 /\ pc = "open_tick"
                 /\ response[oi].symbol = "XBTUSD"
                 /\ "bitmex_XBTUSD" \notin tectonic
                 /\ pc' = IF oi = Len(response) THEN "open_send" ELSE "open_index"
                 /\ conn' = conn
                 /\ msg' = msg
           /\ tectonic' # tectonic
              => /\ create_log' # create_log
                 /\ tectonic' = tectonic \cup {"bitmex_XBTUSD"} ]_vars
    /\ [](pc = "open_send" => ENABLED OnOpenSend)

\* the create of connection 1 failed (no archive exists) and the subscription
\* of connection 1 was sent all the same
C21_Witness ==
    /\ create_log = <<[conn |-> 1, name |-> "bitmex_XBTUSD"]>>
    /\ tectonic = {}
    /\ Len(sent) = 1
    /\ sent[1].conn = 1
    /\ conn.id = 1

\* C22: whenever a thread subtracts the raw id of an update from the offset
\* of its registered symbol, the raw id is at most the offset: the thread goes
\* on to the tick size with the true difference, it neither aborts on the
\* subtraction nor carries a wrapped value.
C22_NoUnderflow ==
    [][\A t \in 1..Len(tasks) :
          LET task == tasks[t]
          IN  ( /\ task.pc = "index"
                /\ tasks'[t] # task
                /\ task.frame.data[task.i].symbol
                      \in DOMAIN asset_indexes[task.asset_indexes] )
              => /\ InRange(task, task.frame.data[task.i])
                 /\ tasks'[t].pc = "tick"
                 /\ tasks'[t].acc # F32FromWrapped(0)]_vars

====
